---- MODULE Spec2Model ----
(***************************************************************************)
(* Hybrid retrieval engine and confidence gate of the tax advisor:         *)
(* retriever.py (tokenize, reciprocal_rank_fusion, HybridRetriever) and    *)
(* the query loop of app.py (domain filter, retrieval, confidence gate,    *)
(* generation).                                                            *)
(*                                                                         *)
(* Numbers.  Python floats are modelled exactly by scaled integers:        *)
(*  - an RRF score is held as a multiple of 1/Scale(k), Scale(k) being a   *)
(*    common multiple of every denominator k + rank + 1 that can occur;    *)
(*  - a distance is held in hundredths, a confidence in units of 1/200,    *)
(*    so that 1 - distance/2 is the integer 200 - d.                       *)
(***************************************************************************)
EXTENDS Integers, Sequences, FiniteSets, TLC

\* ------------------------------------------------------------------ bounds
MaxCorpus == 2      \* the corpus holds 1..MaxCorpus chunks
MaxLen == 3         \* longest ranked list handed to the fusion
MaxCandK == 2       \* candidate_k ranges over 0..MaxCandK
MaxTopK == 2        \* top_k ranges over 1..MaxTopK
MaxScore == 1       \* a BM25 score is one of 0..MaxScore
MaxQuestions == 2   \* questions read by one run of the query loop
MaxQLen == 4        \* longest of the spelled-out short questions

\* ------------------------------------------------------ program constants
K_DEFAULT == 60                 \* reciprocal_rank_fusion(..., k=60)
TOP_K == 5                      \* app.py TOP_K
CANDIDATE_K_DEFAULT == 20       \* retrieve(..., candidate_k=20)
CONFIDENCE_THRESHOLD == 140     \* app.py 0.70, in units of 1/200
CONF_ONE == 200                 \* the float 1 of "1 - distance/2", in units of 1/200

\* chunk identifiers: 1..n are in the store, larger ones are known to the
\* Vector Index only (the collection changed after the engine was built)
Ids == 1..(MaxCorpus + 1)

\* ----------------------------------------------------------------- helpers
Range(s) == {s[i] : i \in DOMAIN s}

IsDistinct(s) == \A i, j \in DOMAIN s : i # j => s[i] # s[j]

Min(a, b) == IF a <= b THEN a ELSE b

\* Python s[:n] for n >= 0
Take(s, n) == SubSeq(s, 1, Min(n, Len(s)))

\* duplicate-free sequences over S of length at most n
DistinctSeqs(S, n) ==
    UNION {{s \in [1..m -> S] : IsDistinct(s)} : m \in 0..n}

\* position of the first occurrence of x in s (0 when absent)
IndexOf(s, x) ==
    IF x \in Range(s) THEN CHOOSE i \in DOMAIN s : s[i] = x /\ \A j \in 1..(i - 1) : s[j] # x
    ELSE 0

\* -------------------------------------------------------------------- text
\* a string is a sequence of one-character strings
UPPERCASE == <<"A","B","C","D","E","F","G","H","I","J","K","L","M",
               "N","O","P","Q","R","S","T","U","V","W","X","Y","Z">>
LOWERCASE == <<"a","b","c","d","e","f","g","h","i","j","k","l","m",
               "n","o","p","q","r","s","t","u","v","w","x","y","z">>

LowerChar(c) ==
    IF c \in Range(UPPERCASE) THEN LOWERCASE[IndexOf(UPPERCASE, c)] ELSE c

\* str.lower()
lower(s) == [i \in DOMAIN s |-> LowerChar(s[i])]

RECURSIVE lstrip(_)
lstrip(s) == IF s # <<>> /\ Head(s) = " " THEN lstrip(Tail(s)) ELSE s

RECURSIVE rstrip(_)
rstrip(s) ==
    IF s # <<>> /\ s[Len(s)] = " " THEN rstrip(SubSeq(s, 1, Len(s) - 1)) ELSE s

\* str.strip()
strip(s) == rstrip(lstrip(s))

DIGITS == <<"0","1","2","3","4","5","6","7","8","9">>

\* the characters the pattern \w matches (of those a text is spelled with)
IsWordChar(c) ==
    c \in Range(LOWERCASE) \cup Range(UPPERCASE) \cup Range(DIGITS) \cup {"_"}

\* length of the longest prefix of s made of \w characters
RECURSIVE WordPrefixLen(_)
WordPrefixLen(s) ==
    IF s = <<>> \/ ~IsWordChar(Head(s)) THEN 0 ELSE 1 + WordPrefixLen(Tail(s))

\* re.findall(r'\b\w+\b', s): the maximal runs of \w characters, left to right
RECURSIVE findall_words(_)
findall_words(s) ==
    IF s = <<>> THEN <<>>
    ELSE IF ~IsWordChar(Head(s)) THEN findall_words(Tail(s))
    ELSE LET n == WordPrefixLen(s)
         IN <<SubSeq(s, 1, n)>> \o findall_words(SubSeq(s, n + 1, Len(s)))

\* faulty variant: the text is not lower-cased
tokenize_no_lower(text) == findall_words(text)

\* tokenize(text): re.findall(r'\b\w+\b', text.lower())
tokenize(text) == findall_words(lower(text))

\* Python "kw in q" on strings
IsSubstring(kw, q) ==
    \E i \in 0..(Len(q) - Len(kw)) : SubSeq(q, i + 1, i + Len(kw)) = kw

TAX_KEYWORDS == {
    <<"t", "a", "x">>,
    <<"t", "a", "x", "e", "s">>,
    <<"f", "o", "r", "m">>,
    <<"i", "r", "s">>,
    <<"f", "i", "l", "i", "n", "g">>,
    <<"f", "i", "l", "e">>,
    <<"i", "n", "c", "o", "m", "e">>,
    <<"d", "e", "d", "u", "c", "t", "i", "o", "n">>,
    <<"r", "e", "f", "u", "n", "d">>,
    <<"w", "-", "2">>,
    <<"w", "2">>,
    <<"1", "0", "4", "0">>,
    <<"8", "8", "4", "3">>,
    <<"8", "2", "3", "3">>,
    <<"1", "0", "9", "8">>,
    <<"w", "i", "t", "h", "h", "o", "l", "d", "i", "n", "g">>,
    <<"t", "r", "e", "a", "t", "y">>,
    <<"v", "i", "s", "a">>,
    <<"f", "-", "1">>,
    <<"f", "1">>,
    <<"j", "-", "1">>,
    <<"j", "1">>,
    <<"o", "p", "t">>,
    <<"c", "p", "t">>,
    <<"f", "i", "c", "a">>,
    <<"s", "s", "n">>,
    <<"i", "t", "i", "n">>,
    <<"s", "c", "h", "o", "l", "a", "r", "s", "h", "i", "p">>,
    <<"s", "t", "i", "p", "e", "n", "d">>,
    <<"w", "a", "g", "e">>,
    <<"w", "a", "g", "e", "s">>,
    <<"s", "a", "l", "a", "r", "y">>,
    <<"r", "e", "s", "i", "d", "e", "n", "t">>,
    <<"n", "o", "n", "r", "e", "s", "i", "d", "e", "n", "t">>,
    <<"r", "e", "t", "u", "r", "n">>,
    <<"c", "r", "e", "d", "i", "t">>,
    <<"e", "x", "e", "m", "p", "t", "i", "o", "n">>,
    <<"a", "l", "i", "e", "n">>,
    <<"s", "u", "b", "s", "t", "a", "n", "t", "i", "a", "l">>,
    <<"p", "r", "e", "s", "e", "n", "c", "e">>,
    <<"d", "e", "a", "d", "l", "i", "n", "e">>,
    <<"a", "p", "r", "i", "l">>,
    <<"e", "x", "t", "e", "n", "s", "i", "o", "n">>,
    <<"s", "t", "a", "t", "e">>,
    <<"f", "e", "d", "e", "r", "a", "l">>,
    <<"s", "o", "c", "i", "a", "l", " ", "s", "e", "c", "u", "r", "i", "t", "y">>,
    <<"m", "e", "d", "i", "c", "a", "r", "e">>,
    <<"f", "e", "l", "l", "o", "w", "s", "h", "i", "p">>,
    <<"t", "u", "i", "t", "i", "o", "n">>
}

\* faulty variant: the question is not lower-cased before the search
is_tax_question_case_sensitive(question) ==
    \E kw \in TAX_KEYWORDS : IsSubstring(kw, question)

\* is_tax_question(question): any(kw in question.lower() for kw in TAX_KEYWORDS)
is_tax_question(question) ==
    LET q_lower == lower(question)
    IN \E kw \in TAX_KEYWORDS : IsSubstring(kw, q_lower)

QUIT_WORDS == {<<"q","u","i","t">>, <<"e","x","i","t">>, <<"q">>}

\* the lines typed at the "Your question:" prompt
Q_FORM == <<"W", "h", "a", "t", " ", "i", "s", " ", "F", "o", "r", "m", " ", "8", "8", "4", "3", "?">>
Q_WEATHER == <<"W", "h", "a", "t", "'", "s", " ", "t", "h", "e", " ", "w", "e", "a", "t", "h", "e", "r", " ", "t", "o", "d", "a", "y", "?">>
Q_TAX_UPPER == <<" ", " ", "T", "A", "X", " ">>
Q_QUIT == <<"Q", "u", "i", "t">>
Q_BLANK == <<" ">>
Q_HELLO == <<"h", "e", "l", "l", "o">>

Q_F1 == <<"F", "-", "1", " ", "t", "r", "e", "a", "t", "y", " ", "b", "e", "n", "e", "f", "i", "t", "s">>

RawInputs == {Q_FORM, Q_WEATHER, Q_TAX_UPPER, Q_QUIT, Q_BLANK, Q_HELLO}

\* ------------------------------------------------------------- rank fusion
\* common multiple of the denominators k + rank + 1, rank \in 0..MaxLen-1
RECURSIVE ScaleUpTo(_, _)
ScaleUpTo(k, n) == IF n = 0 THEN 1 ELSE (k + n) * ScaleUpTo(k, n - 1)

Scale(k) == ScaleUpTo(k, MaxLen)

\* 1 / (k + rank + 1), rank 0-based, as a multiple of 1/Scale(k)
Contribution(k, rank) == Scale(k) \div (k + rank + 1)

\* a dict: its keys in insertion order, and its values
EmptyDict == [keys |-> <<>>, val |-> <<>>]

DictGet(d, key, default) == IF key \in Range(d.keys) THEN d.val[key] ELSE default

DictSet(d, key, v) ==
    [keys |-> IF key \in Range(d.keys) THEN d.keys ELSE Append(d.keys, key),
     val  |-> [x \in Range(d.keys) \cup {key} |-> IF x = key THEN v ELSE d.val[x]]]

\* faulty variant: the contribution overwrites the running total
AddContribution_overwrite(d, chunk_id, k, rank) ==
    DictSet(d, chunk_id, Contribution(k, rank))

\* scores[chunk_id] = scores.get(chunk_id, 0) + 1 / (k + rank + 1)
AddContribution(d, chunk_id, k, rank) ==
    DictSet(d, chunk_id, DictGet(d, chunk_id, 0) + Contribution(k, rank))

\* for rank, chunk_id in enumerate(ids): ...   (from position i on)
RECURSIVE Accumulate(_, _, _, _)
Accumulate(d, ids, i, k) ==
    IF i > Len(ids) THEN d
    ELSE Accumulate(AddContribution(d, ids[i], k, i - 1), ids, i + 1, k)

\* the scores dict after both loops
rrf_scores(vector_ids_, bm25_ids_, k_) ==
    Accumulate(Accumulate(EmptyDict, vector_ids_, 1, k_), bm25_ids_, 1, k_)

\* faulty variant: an element is put in front of the elements it ties with
InsertDesc_unstable(s, x, key) ==
    LET n == Cardinality({i \in DOMAIN s : key[s[i]] > key[x]})
    IN SubSeq(s, 1, n) \o <<x>> \o SubSeq(s, n + 1, Len(s))

\* faulty variant: ascending order (reverse=True forgotten)
InsertDesc_ascending(s, x, key) ==
    LET n == Cardinality({i \in DOMAIN s : key[s[i]] <= key[x]})
    IN SubSeq(s, 1, n) \o <<x>> \o SubSeq(s, n + 1, Len(s))

\* x is put behind every element of the sorted s whose key is >= key[x]
InsertDesc(s, x, key) ==
    LET n == Cardinality({i \in DOMAIN s : key[s[i]] >= key[x]})
    IN SubSeq(s, 1, n) \o <<x>> \o SubSeq(s, n + 1, Len(s))

\* sorted(s, key=..., reverse=True): stable, so elements with equal keys
\* keep the order they have in s
RECURSIVE sorted_reverse(_, _)
sorted_reverse(s, key) ==
    IF s = <<>> THEN <<>>
    ELSE InsertDesc(sorted_reverse(SubSeq(s, 1, Len(s) - 1), key), s[Len(s)], key)

\* faulty variant: only the identifiers of the first list are returned
reciprocal_rank_fusion_first_only(vector_ids_, bm25_ids_, k_) ==
    LET scores_ == rrf_scores(vector_ids_, <<>>, k_)
    IN sorted_reverse(scores_.keys, scores_.val)

reciprocal_rank_fusion(vector_ids_, bm25_ids_, k_) ==
    LET scores_ == rrf_scores(vector_ids_, bm25_ids_, k_)
    IN sorted_reverse(scores_.keys, scores_.val)

\* ---------------------------------------------------------------- retriever
\* HybridRetriever.__init__: the ids in the order collection.get returns
\* them, and the chunk of each id
Corpora == {[i \in 1..n |-> i] : n \in 1..MaxCorpus}

TextOf(cid) == <<"text", cid>>

MetaOf(cid) == <<"metadata", cid>>

BuildChunkMap(ids) ==
    [cid \in Range(ids) |-> [text |-> TextOf(cid), metadata |-> MetaOf(cid)]]

\* collection.get(include=["documents", "metadatas"]) of a collection that
\* holds the chunks ids
CollectionOf(ids) ==
    [ids |-> ids,
     documents |-> [i \in DOMAIN ids |-> TextOf(ids[i])],
     metadatas |-> [i \in DOMAIN ids |-> MetaOf(ids[i])]]

EmptyCollection == [ids |-> <<>>, documents |-> <<>>, metadatas |-> <<>>]

NoIndex == [corpus_size |-> 0, corpus |-> <<>>]

\* faulty variant: an index over no document is built without complaint
BM25Okapi_accepts_empty(corpus) ==
    [exc |-> "none", index |-> [corpus_size |-> Len(corpus), corpus |-> corpus]]

\* BM25Okapi(tokenized).  rank_bm25 counts the documents and then divides the
\* summed document length by that count (avgdl = num_doc / corpus_size), which
\* is a ZeroDivisionError over no document; a document without tokens is
\* counted like any other.  The index is kept as the documents it was built
\* from.
BM25Okapi(corpus) ==
    IF Len(corpus) = 0
    THEN [exc |-> "ZeroDivisionError", index |-> NoIndex]
    ELSE [exc |-> "none", index |-> [corpus_size |-> Len(corpus), corpus |-> corpus]]

\* self.chunk_map = {cid: {"text": text, "metadata": meta} for cid, text, meta
\* in zip(...)}: a later record of an id replaces an earlier one
zip_chunk_map(all_ids_, all_texts_, all_metadatas_) ==
    [cid \in Range(all_ids_) |->
        LET last == CHOOSE i \in DOMAIN all_ids_ :
                        /\ all_ids_[i] = cid
                        /\ \A j \in DOMAIN all_ids_ : all_ids_[j] = cid => j <= i
        IN [text |-> all_texts_[last], metadata |-> all_metadatas_[last]]]

\* HybridRetriever.__init__(collection): the fields of the engine, or the
\* exception that left the constructor
HybridRetriever_init(all_data) ==
    LET all_ids_ == all_data.ids
        all_texts_ == all_data.documents
        all_metadatas_ == all_data.metadatas
        built == BM25Okapi(all_texts_)
    IN [exc |-> built.exc,
        all_ids |-> all_ids_,
        chunk_map |-> zip_chunk_map(all_ids_, all_texts_, all_metadatas_),
        bm25 |-> built.index]

\* nearest distances the Vector Index answers with, in hundredths.  The
\* cosine distance is nominally in [0, 2]; float32 rounding (and a collection
\* created with another metric) also give values just outside it.
Distances == {-1, 0, 60, 61, 180, 200, 201}

\* collection.query(query_texts=[query], n_results=candidate_k,
\* include=["distances"]): at most candidate_k distinct ids, nearest first,
\* with non-decreasing distances; or the query fails
VecResponses(candidate_k_) ==
    {[ok |-> TRUE, ids |-> ids,
      distances |-> [i \in DOMAIN ids |-> d0 + (i - 1) * step]] :
        ids \in DistinctSeqs(Ids, Min(candidate_k_, MaxLen)),
        d0 \in Distances, step \in {0, 1}}

VecFailure == [ok |-> FALSE, ids |-> <<>>, distances |-> <<>>]

\* self.bm25.get_scores(query_tokens): one score per chunk, in corpus order.
\* BM25Okapi is the rank_bm25 library; its scores for the tokens of the
\* query are any score vector
BM25Scores(ids) == [DOMAIN ids -> 0..MaxScore]

\* faulty variant: the distance is used whether or not an id came back
best_vector_score_unguarded(vec_results_) ==
    IF vec_results_.distances # <<>>
    THEN [exc |-> "none", value |-> CONF_ONE - vec_results_.distances[1]]
    ELSE [exc |-> "IndexError", value |-> 0]

\* faulty variant: the last (farthest) distance is used
best_vector_score_last(vec_results_) ==
    IF vec_results_.ids # <<>>
    THEN [exc |-> "none",
          value |-> CONF_ONE - vec_results_.distances[Len(vec_results_.distances)]]
    ELSE [exc |-> "none", value |-> 0]

\* 1 - (vec_results["distances"][0][0] / 2) if vector_ids else 0.0
best_vector_score(vec_results_) ==
    IF vec_results_.ids # <<>>
    THEN [exc |-> "none", value |-> CONF_ONE - vec_results_.distances[1]]
    ELSE [exc |-> "none", value |-> 0]

\* faulty variant: a position whose score is 0 is not a candidate
top_bm25_indices_positive(bm25_scores_, candidate_k_) ==
    Take(SelectSeq(sorted_reverse([i \in DOMAIN bm25_scores_ |-> i], bm25_scores_),
                   LAMBDA i : bm25_scores_[i] > 0), candidate_k_)

\* sorted(range(len(bm25_scores)), key=lambda i: bm25_scores[i],
\*        reverse=True)[:candidate_k]      (positions are 1-based here)
top_bm25_indices(bm25_scores_, candidate_k_) ==
    Take(sorted_reverse([i \in DOMAIN bm25_scores_ |-> i], bm25_scores_), candidate_k_)

\* faulty variant: the fused ranking is not cut to top_k
fused_top_k_uncut(fused, top_k_) == fused

\* reciprocal_rank_fusion(vector_ids, bm25_ids)[:top_k]
fused_top_k(fused, top_k_) == Take(fused, top_k_)

\* faulty variant: the loop ends at the first id that is not in the chunk map
build_results_until_missing(chunk_map_, fused_ids_) ==
    LET found == {n \in 0..Len(fused_ids_) :
                    \A i \in 1..n : fused_ids_[i] \in DOMAIN chunk_map_}
        last == CHOOSE n \in found : \A m \in found : m <= n
    IN [i \in 1..last |-> [chunk_id |-> fused_ids_[i],
                           text |-> chunk_map_[fused_ids_[i]].text,
                           metadata |-> chunk_map_[fused_ids_[i]].metadata]]

\* for chunk_id in fused_ids: if chunk_id in self.chunk_map: results.append(...)
RECURSIVE build_results(_, _)
build_results(chunk_map_, fused_ids_) ==
    IF fused_ids_ = <<>> THEN <<>>
    ELSE LET chunk_id == Head(fused_ids_)
             rest == build_results(chunk_map_, Tail(fused_ids_))
         IN IF chunk_id \in DOMAIN chunk_map_
            THEN <<[chunk_id |-> chunk_id,
                    text |-> chunk_map_[chunk_id].text,
                    metadata |-> chunk_map_[chunk_id].metadata]>> \o rest
            ELSE rest

\* faulty variant: a failed Vector Index query is taken for an empty
\* response, and the lexical candidates alone are returned
retrieve_lexical_fallback(all_ids_, chunk_map_, vec_results_, bm25_scores_, top_k_, candidate_k_) ==
    LET vector_ids_ == IF vec_results_.ok THEN vec_results_.ids ELSE <<>>
        best == IF vec_results_.ok THEN best_vector_score(vec_results_)
                ELSE [exc |-> "none", value |-> 0]
        top_ == top_bm25_indices(bm25_scores_, candidate_k_)
        bm25_ids_ == [i \in DOMAIN top_ |-> all_ids_[top_[i]]]
        scores_ == rrf_scores(vector_ids_, bm25_ids_, K_DEFAULT)
        fused_ids_ == fused_top_k(reciprocal_rank_fusion(vector_ids_, bm25_ids_, K_DEFAULT),
                                  top_k_)
    IN [exc |-> best.exc, vector_ids |-> vector_ids_, bm25_ids |-> bm25_ids_,
        scores |-> scores_, fused_ids |-> fused_ids_,
        results |-> IF best.exc = "none"
                    THEN build_results(chunk_map_, fused_ids_) ELSE <<>>,
        confidence |-> best.value]

\* faulty variant: the confidence is the vector similarity of the chunk that
\* the fusion ranks first (0 when the Vector Index did not return it)
retrieve_confidence_of_fused(all_ids_, chunk_map_, vec_results_, bm25_scores_, top_k_, candidate_k_) ==
    LET vector_ids_ == vec_results_.ids
        best == best_vector_score(vec_results_)
        top_ == top_bm25_indices(bm25_scores_, candidate_k_)
        bm25_ids_ == [i \in DOMAIN top_ |-> all_ids_[top_[i]]]
        scores_ == rrf_scores(vector_ids_, bm25_ids_, K_DEFAULT)
        fused_ids_ == fused_top_k(reciprocal_rank_fusion(vector_ids_, bm25_ids_, K_DEFAULT),
                                  top_k_)
        at == IF fused_ids_ = <<>> THEN 0 ELSE IndexOf(vector_ids_, fused_ids_[1])
    IN IF ~vec_results_.ok
       THEN [exc |-> "VectorIndexError", vector_ids |-> <<>>, bm25_ids |-> <<>>,
             scores |-> EmptyDict, fused_ids |-> <<>>, results |-> <<>>,
             confidence |-> 0]
       ELSE [exc |-> best.exc, vector_ids |-> vector_ids_, bm25_ids |-> bm25_ids_,
             scores |-> scores_, fused_ids |-> fused_ids_,
             results |-> IF best.exc = "none"
                         THEN build_results(chunk_map_, fused_ids_) ELSE <<>>,
             confidence |-> IF at = 0 THEN 0
                            ELSE CONF_ONE - vec_results_.distances[at]]

\* HybridRetriever.retrieve: what it returns (or raises) and its locals
retrieve(all_ids_, chunk_map_, vec_results_, bm25_scores_, top_k_, candidate_k_) ==
    LET vector_ids_ == vec_results_.ids
        best == best_vector_score(vec_results_)
        top_ == top_bm25_indices(bm25_scores_, candidate_k_)
        bm25_ids_ == [i \in DOMAIN top_ |-> all_ids_[top_[i]]]
        scores_ == rrf_scores(vector_ids_, bm25_ids_, K_DEFAULT)
        fused_ids_ == fused_top_k(reciprocal_rank_fusion(vector_ids_, bm25_ids_, K_DEFAULT),
                                  top_k_)
    IN IF ~vec_results_.ok
       THEN [exc |-> "VectorIndexError", vector_ids |-> <<>>, bm25_ids |-> <<>>,
             scores |-> EmptyDict, fused_ids |-> <<>>, results |-> <<>>,
             confidence |-> 0]
       ELSE [exc |-> best.exc, vector_ids |-> vector_ids_, bm25_ids |-> bm25_ids_,
             scores |-> scores_, fused_ids |-> fused_ids_,
             results |-> IF best.exc = "none"
                         THEN build_results(chunk_map_, fused_ids_) ELSE <<>>,
             confidence |-> best.value]

\* ------------------------------------------------------------- application
\* faulty variant: a confidence equal to the threshold is refused too
below_threshold_inclusive(confidence_) == confidence_ <= CONFIDENCE_THRESHOLD

\* if confidence < CONFIDENCE_THRESHOLD
below_threshold(confidence_) == confidence_ < CONFIDENCE_THRESHOLD

\* if not question or question.lower() in ('quit', 'exit', 'q')
is_quit(question_) == question_ = <<>> \/ lower(question_) \in QUIT_WORDS

\* faulty variant: every retrieved chunk is quoted, not chunks[:2]
extractive_fallback_all(chunks) == [i \in DOMAIN chunks |-> chunks[i].text]

\* extractive_fallback(chunks): the raw text of chunks[:2], in order
extractive_fallback(chunks) ==
    LET top2 == Take(chunks, 2)
    IN [i \in DOMAIN top2 |-> top2[i].text]

\* ask_gemini: the generated answer, or the fallback when Gemini raises
ask_gemini(chunks, gemini_ok) ==
    IF gemini_ok
    THEN [answer |-> <<"generated">>, used_fallback |-> FALSE]
    ELSE [answer |-> extractive_fallback(chunks), used_fallback |-> TRUE]

\* -------------------------------------------------------------------- state
VARIABLES
    pc,           \* where the running code stands
    collection,   \* HybridRetriever.collection: what collection.get returns
    all_ids,      \* HybridRetriever.all_ids
    chunk_map,    \* HybridRetriever.chunk_map
    bm25,         \* HybridRetriever.bm25
    question,     \* main: the stripped line read last
    n_read,       \* main: lines read so far
    outcome,      \* main: what was printed for the current question
    answer,       \* main: what ask_gemini returned last
    n_logged,     \* main: lines appended to query_log.jsonl
    top_k,        \* retrieve: argument
    candidate_k,  \* retrieve: argument
    k,            \* reciprocal_rank_fusion: argument
    vec_results,  \* retrieve: the Vector Index response
    bm25_scores,  \* retrieve: local
    vector_ids,   \* retrieve: local; first argument of the fusion
    bm25_ids,     \* retrieve: local; second argument of the fusion
    scores,       \* reciprocal_rank_fusion: local dict
    fused_ids,    \* retrieve: local; what the fusion returned
    results,      \* retrieve: returned chunks (main: chunks)
    confidence,   \* retrieve: returned best_vector_score (main: confidence)
    exc           \* the exception that left retrieve, "none" without one

vars == <<pc, collection, all_ids, chunk_map, bm25, question, n_read, outcome, answer, n_logged,
          top_k, candidate_k, k, vec_results, bm25_scores, vector_ids, bm25_ids,
          scores, fused_ids, results, confidence, exc>>

NoResponse == [ok |-> TRUE, ids |-> <<>>, distances |-> <<>>]

NoOutcome == [kind |-> "none", confidence |-> 0]

NoAnswer == [answer |-> <<>>, used_fallback |-> FALSE]

\* the locals of a retrieve call that has not run (or has returned)
LocalsIdle ==
    /\ bm25_scores = <<>>
    /\ vector_ids = <<>>
    /\ bm25_ids = <<>>
    /\ scores = EmptyDict
    /\ fused_ids = <<>>

MainIdle ==
    /\ question = <<>>
    /\ n_read = 0
    /\ outcome = NoOutcome
    /\ answer = NoAnswer
    /\ n_logged = 0

ReturnIdle ==
    /\ vec_results = NoResponse
    /\ results = <<>>
    /\ confidence = 0
    /\ exc = "none"

\* --------------------------------------------------- the query loop (main)
\* after HybridRetriever(collection) and get_student_info()
Init ==
    /\ pc = "read"
    /\ all_ids \in Corpora
    /\ collection = CollectionOf(all_ids)
    /\ chunk_map = BuildChunkMap(all_ids)
    /\ bm25 = BM25Okapi(collection.documents).index
    /\ top_k = TOP_K
    /\ candidate_k = CANDIDATE_K_DEFAULT
    /\ k = K_DEFAULT
    /\ MainIdle
    /\ LocalsIdle
    /\ ReturnIdle

\* question = input("\nYour question: ").strip(), and the quit test.  What the
\* previous iteration left in chunks, confidence and answer is dead (every
\* path assigns them before it reads them) and is dropped here.
ReadQuestion ==
    /\ pc = "read"
    /\ n_read < MaxQuestions
    /\ \E raw \in RawInputs :
        /\ question' = strip(raw)
        /\ IF is_quit(strip(raw))
           THEN pc' = "done" /\ outcome' = [kind |-> "goodbye", confidence |-> 0]
           ELSE pc' = "filter" /\ outcome' = NoOutcome
    /\ n_read' = n_read + 1
    /\ answer' = NoAnswer
    /\ vec_results' = NoResponse
    /\ results' = <<>>
    /\ confidence' = 0
    /\ UNCHANGED <<collection, all_ids, chunk_map, bm25, n_logged, top_k, candidate_k, k,
                   bm25_scores, vector_ids, bm25_ids, scores, fused_ids, exc>>

\* faulty variant: the refusal is printed but the `continue` is missing
DomainFilter_no_continue ==
    /\ pc = "filter"
    /\ pc' = "retrieve"
    /\ outcome' = IF ~is_tax_question(question)
                  THEN [kind |-> "off_topic", confidence |-> 0] ELSE outcome
    /\ UNCHANGED <<collection, all_ids, chunk_map, bm25, question, n_read, answer, n_logged, top_k,
                   candidate_k, k, vec_results, bm25_scores, vector_ids, bm25_ids,
                   scores, fused_ids, results, confidence, exc>>

\* refusal check 1: the keyword filter
DomainFilter ==
    /\ pc = "filter"
    /\ IF ~is_tax_question(question)
       THEN pc' = "read" /\ outcome' = [kind |-> "off_topic", confidence |-> 0]
       ELSE pc' = "retrieve" /\ outcome' = outcome
    /\ UNCHANGED <<collection, all_ids, chunk_map, bm25, question, n_read, answer, n_logged, top_k,
                   candidate_k, k, vec_results, bm25_scores, vector_ids, bm25_ids,
                   scores, fused_ids, results, confidence, exc>>

\* query = build_query(student_info, question);
\* chunks, confidence = retriever.retrieve(query, top_k=TOP_K).  What the
\* Vector Index and BM25 answer for the query text is any response and any
\* score vector; an exception of the Vector Index query is caught nowhere and
\* ends main
Retrieve ==
    /\ pc = "retrieve"
    /\ \E vec \in VecResponses(candidate_k) \cup {VecFailure},
          s \in BM25Scores(all_ids) :
        \E r \in {retrieve(all_ids, chunk_map, vec, s, top_k, candidate_k)} :
           /\ vec_results' = vec
           /\ exc' = r.exc
           /\ IF r.exc = "none"
              THEN pc' = "gate" /\ results' = r.results /\ confidence' = r.confidence
              ELSE pc' = "crashed" /\ UNCHANGED <<results, confidence>>
    /\ UNCHANGED <<collection, all_ids, chunk_map, bm25, question, n_read, outcome, answer, n_logged,
                   top_k, candidate_k, k, bm25_scores, vector_ids, bm25_ids,
                   scores, fused_ids>>

\* refusal check 2: the confidence threshold
ConfidenceGate ==
    /\ pc = "gate"
    /\ IF below_threshold(confidence)
       THEN pc' = "read"
            /\ outcome' = [kind |-> "low_confidence", confidence |-> confidence]
       ELSE pc' = "generate" /\ outcome' = outcome
    /\ UNCHANGED <<collection, all_ids, chunk_map, bm25, question, n_read, answer, n_logged, top_k,
                   candidate_k, k, vec_results, bm25_scores, vector_ids, bm25_ids,
                   scores, fused_ids, results, confidence, exc>>

\* ask_gemini, the printed answer, collect_feedback and log_query
Generate ==
    /\ pc = "generate"
    /\ \E gemini_ok \in BOOLEAN : answer' = ask_gemini(results, gemini_ok)
    /\ outcome' = [kind |-> "answered", confidence |-> confidence]
    /\ n_logged' = n_logged + 1
    /\ pc' = "read"
    /\ UNCHANGED <<collection, all_ids, chunk_map, bm25, question, n_read, top_k, candidate_k, k,
                   vec_results, bm25_scores, vector_ids, bm25_ids, scores,
                   fused_ids, results, confidence, exc>>

Next ==
    \/ ReadQuestion
    \/ DomainFilter
    \/ Retrieve
    \/ ConfidenceGate
    \/ Generate

Spec == Init /\ [][Next]_vars

\* ------------------------------------------------- one call of retrieve
InitRetrieve ==
    /\ pc = "retrieve_call"
    /\ all_ids \in Corpora
    /\ collection = CollectionOf(all_ids)
    /\ chunk_map = BuildChunkMap(all_ids)
    /\ bm25 = BM25Okapi(collection.documents).index
    /\ top_k \in 1..MaxTopK
    /\ candidate_k \in 0..MaxCandK
    /\ k = K_DEFAULT
    /\ MainIdle
    /\ LocalsIdle
    /\ ReturnIdle

RetrieveCall ==
    /\ pc = "retrieve_call"
    /\ \E vec \in VecResponses(candidate_k) \cup {VecFailure},
          s \in BM25Scores(all_ids) :
        \E r \in {retrieve(all_ids, chunk_map, vec, s, top_k, candidate_k)} :
           /\ vec_results' = vec
           /\ bm25_scores' = s
           /\ vector_ids' = r.vector_ids
           /\ bm25_ids' = r.bm25_ids
           /\ scores' = r.scores
           /\ fused_ids' = r.fused_ids
           /\ results' = r.results
           /\ confidence' = r.confidence
           /\ exc' = r.exc
           /\ pc' = IF r.exc = "none" THEN "retrieve_ret" ELSE "retrieve_raised"
    /\ UNCHANGED <<collection, all_ids, chunk_map, bm25, question, n_read, outcome, answer, n_logged,
                   top_k, candidate_k, k>>

NextRetrieve == RetrieveCall

SpecRetrieve == InitRetrieve /\ [][NextRetrieve]_vars

\* ------------------------------------- one call of reciprocal_rank_fusion
\* the damping constants the fusion is called with
Ks == {0, K_DEFAULT}

\* a ranked list names no identifier twice
RankedLists == DistinctSeqs(Ids, MaxLen)

InitFuse ==
    /\ pc = "fuse_call"
    /\ vector_ids \in RankedLists
    /\ bm25_ids \in RankedLists
    /\ k \in Ks
    /\ collection = EmptyCollection
    /\ all_ids = <<>>
    /\ chunk_map = <<>>
    /\ bm25 = NoIndex
    /\ top_k = TOP_K
    /\ candidate_k = CANDIDATE_K_DEFAULT
    /\ bm25_scores = <<>>
    /\ scores = EmptyDict
    /\ fused_ids = <<>>
    /\ MainIdle
    /\ ReturnIdle

FuseCall ==
    /\ pc = "fuse_call"
    /\ scores' = rrf_scores(vector_ids, bm25_ids, k)
    /\ fused_ids' = reciprocal_rank_fusion(vector_ids, bm25_ids, k)
    /\ pc' = "fuse_ret"
    /\ UNCHANGED <<collection, all_ids, chunk_map, bm25, question, n_read, outcome, answer, n_logged,
                   top_k, candidate_k, k, vec_results, bm25_scores, vector_ids,
                   bm25_ids, results, confidence, exc>>

NextFuse == FuseCall

SpecFuse == InitFuse /\ [][NextFuse]_vars

\* --------------------------------------------- one call of is_tax_question
\* the characters the short questions are spelled with
QuestionChars == {"t", "a", "x", "T", "A", "X"}

\* the questions the filter is called with: the lines of the prompt, and
\* every string of at most MaxQLen of the characters above
Questions ==
    {strip(raw) : raw \in RawInputs}
        \cup UNION {[1..n -> QuestionChars] : n \in 0..MaxQLen}

InitFilter ==
    /\ pc = "filter_call"
    /\ question \in Questions
    /\ collection = EmptyCollection
    /\ all_ids = <<>>
    /\ chunk_map = <<>>
    /\ bm25 = NoIndex
    /\ top_k = TOP_K
    /\ candidate_k = CANDIDATE_K_DEFAULT
    /\ k = K_DEFAULT
    /\ n_read = 0
    /\ outcome = NoOutcome
    /\ answer = NoAnswer
    /\ n_logged = 0
    /\ LocalsIdle
    /\ ReturnIdle

\* is_tax_question(question); outcome holds the value returned
FilterCall ==
    /\ pc = "filter_call"
    /\ outcome' = [kind |-> "is_tax_question", confidence |-> 0,
                   value |-> is_tax_question(question)]
    /\ pc' = "filter_ret"
    /\ UNCHANGED <<collection, all_ids, chunk_map, bm25, question, n_read, answer,
                   n_logged, top_k, candidate_k, k, vec_results, bm25_scores,
                   vector_ids, bm25_ids, scores, fused_ids, results, confidence,
                   exc>>

NextFilter == FilterCall

SpecFilter == InitFilter /\ [][NextFilter]_vars

\* ----------------------------------------------------- one call of tokenize
\* the characters the short texts are spelled with
TextChars == {"F", "a", "1", "-", " ", "_"}

\* the texts tokenize is called with: the query "F-1 treaty benefits", and
\* every string of at most MaxQLen of the characters above
Texts == {Q_F1} \cup UNION {[1..n -> TextChars] : n \in 0..MaxQLen}

\* question holds the text handed to tokenize
InitTokenize ==
    /\ pc = "tokenize_call"
    /\ question \in Texts
    /\ collection = EmptyCollection
    /\ all_ids = <<>>
    /\ chunk_map = <<>>
    /\ bm25 = NoIndex
    /\ top_k = TOP_K
    /\ candidate_k = CANDIDATE_K_DEFAULT
    /\ k = K_DEFAULT
    /\ n_read = 0
    /\ outcome = NoOutcome
    /\ answer = NoAnswer
    /\ n_logged = 0
    /\ LocalsIdle
    /\ ReturnIdle

\* tokenize(text); outcome holds the token list returned
TokenizeCall ==
    /\ pc = "tokenize_call"
    /\ outcome' = [kind |-> "tokenize", confidence |-> 0,
                   value |-> tokenize(question)]
    /\ pc' = "tokenize_ret"
    /\ UNCHANGED <<collection, all_ids, chunk_map, bm25, question, n_read, answer,
                   n_logged, top_k, candidate_k, k, vec_results, bm25_scores,
                   vector_ids, bm25_ids, scores, fused_ids, results, confidence,
                   exc>>

NextTokenize == TokenizeCall

SpecTokenize == InitTokenize /\ [][NextTokenize]_vars

\* -------------------------------------------------- one call of ask_gemini
\* the chunk lists retrieve hands to main: at most MaxLen chunks of a corpus
\* of MaxLen + 1 chunks, no chunk twice
ChunkLists ==
    {[i \in DOMAIN ids |-> [chunk_id |-> ids[i], text |-> TextOf(ids[i]),
                            metadata |-> MetaOf(ids[i])]] :
        ids \in DistinctSeqs(1..(MaxLen + 1), MaxLen)}

InitAsk ==
    /\ pc = "ask_call"
    /\ results \in ChunkLists
    /\ collection = EmptyCollection
    /\ all_ids = <<>>
    /\ chunk_map = <<>>
    /\ bm25 = NoIndex
    /\ top_k = TOP_K
    /\ candidate_k = CANDIDATE_K_DEFAULT
    /\ k = K_DEFAULT
    /\ MainIdle
    /\ LocalsIdle
    /\ vec_results = NoResponse
    /\ confidence = 0
    /\ exc = "none"

\* ask_gemini(student_info, question, context, chunks): the genai call either
\* answers or raises; outcome holds which
AskGemini ==
    /\ pc = "ask_call"
    /\ \E gemini_ok \in BOOLEAN :
        /\ answer' = ask_gemini(results, gemini_ok)
        /\ outcome' = [kind |-> IF gemini_ok THEN "gemini_answered"
                                ELSE "gemini_raised",
                       confidence |-> 0]
    /\ pc' = "ask_ret"
    /\ UNCHANGED <<collection, all_ids, chunk_map, bm25, question, n_read,
                   n_logged, top_k, candidate_k, k, vec_results, bm25_scores,
                   vector_ids, bm25_ids, scores, fused_ids, results, confidence,
                   exc>>

NextAsk == AskGemini

SpecAsk == InitAsk /\ [][NextAsk]_vars

\* ---------------------------------------- construction of the engine
\* the text of a record of the collection: the empty string, a blank, or the
\* text of the chunk
Documents(cid) == {<<>>, <<" ">>, TextOf(cid)}

\* what collection.get returns: at most MaxCorpus records, no id twice, in
\* any order, each with one of the texts above
Collections ==
    UNION {{[ids |-> ids, documents |-> docs,
             metadatas |-> [i \in DOMAIN ids |-> MetaOf(ids[i])]] :
               docs \in {d \in [DOMAIN ids -> UNION {Documents(cid) : cid \in Ids}] :
                           \A i \in DOMAIN ids : d[i] \in Documents(ids[i])}} :
           ids \in DistinctSeqs(Ids, MaxCorpus)}

\* main before retriever = HybridRetriever(collection)
InitConstruct ==
    /\ pc = "construct"
    /\ collection \in Collections
    /\ all_ids = <<>>
    /\ chunk_map = <<>>
    /\ bm25 = NoIndex
    /\ top_k = TOP_K
    /\ candidate_k = CANDIDATE_K_DEFAULT
    /\ k = K_DEFAULT
    /\ MainIdle
    /\ LocalsIdle
    /\ ReturnIdle

\* retriever = HybridRetriever(collection): main goes on to the query loop
\* with the engine built, or the exception of the constructor ends it
Construct ==
    /\ pc = "construct"
    /\ \E engine \in {HybridRetriever_init(collection)} :
        /\ exc' = engine.exc
        /\ IF engine.exc = "none"
           THEN /\ all_ids' = engine.all_ids
                /\ chunk_map' = engine.chunk_map
                /\ bm25' = engine.bm25
                /\ pc' = "read"
           ELSE /\ pc' = "crashed"
                /\ UNCHANGED <<all_ids, chunk_map, bm25>>
    /\ UNCHANGED <<collection, question, n_read, outcome, answer, n_logged, top_k,
                   candidate_k, k, vec_results, bm25_scores, vector_ids, bm25_ids,
                   scores, fused_ids, results, confidence>>

NextConstruct == Construct

SpecConstruct == InitConstruct /\ [][NextConstruct]_vars

\* ------------------------------------- concurrent calls of retrieve
\* Two callers share one engine.  Each variable of a call (pc and the locals
\* of retrieve) holds one value per caller; a call runs in three steps, each
\* of which reads the fields of the engine as they are when it runs.
Threads == {"t1", "t2"}

\* the responses of the Vector Index to the concurrent calls: at most one
\* id, at one of two distances, or a failure
ThreadResponses ==
    {v \in VecResponses(1) : v.ids = <<>> \/ v.distances[1] \in {60, 180}}
        \cup {VecFailure}

InitConcurrent ==
    /\ pc = [t \in Threads |-> "query"]
    /\ all_ids \in Corpora
    /\ collection = CollectionOf(all_ids)
    /\ chunk_map = BuildChunkMap(all_ids)
    /\ bm25 = BM25Okapi(collection.documents).index
    /\ top_k = TOP_K
    /\ candidate_k = 1
    /\ k = K_DEFAULT
    /\ MainIdle
    /\ vec_results = [t \in Threads |-> NoResponse]
    /\ bm25_scores = [t \in Threads |-> <<>>]
    /\ vector_ids = [t \in Threads |-> <<>>]
    /\ bm25_ids = [t \in Threads |-> <<>>]
    /\ scores = [t \in Threads |-> EmptyDict]
    /\ fused_ids = [t \in Threads |-> <<>>]
    /\ results = [t \in Threads |-> <<>>]
    /\ confidence = [t \in Threads |-> 0]
    /\ exc = [t \in Threads |-> "none"]

\* lines 74-82: the Vector Index query and best_vector_score
QueryVector(t) ==
    /\ pc[t] = "query"
    /\ \E vec \in ThreadResponses :
        /\ vec_results' = [vec_results EXCEPT ![t] = vec]
        /\ IF vec.ok
           THEN /\ vector_ids' = [vector_ids EXCEPT ![t] = vec.ids]
                /\ confidence' = [confidence EXCEPT ![t] = best_vector_score(vec).value]
                /\ pc' = [pc EXCEPT ![t] = "lexical"]
                /\ exc' = exc
           ELSE /\ exc' = [exc EXCEPT ![t] = "VectorIndexError"]
                /\ pc' = [pc EXCEPT ![t] = "raised"]
                /\ UNCHANGED <<vector_ids, confidence>>
    /\ UNCHANGED <<collection, all_ids, chunk_map, bm25, question, n_read, outcome,
                   answer, n_logged, top_k, candidate_k, k, bm25_scores, bm25_ids,
                   scores, fused_ids, results>>

\* lines 85-91: the BM25 scores of the indexed documents, the lexical
\* candidates read off self.all_ids, and the fusion
Lexical(t) ==
    /\ pc[t] = "lexical"
    /\ \E s \in [1..bm25.corpus_size -> 0..MaxScore] :
        \E top_ \in {top_bm25_indices(s, candidate_k)} :
        \E ids_ \in {[i \in DOMAIN top_ |-> all_ids[top_[i]]]} :
           /\ bm25_scores' = [bm25_scores EXCEPT ![t] = s]
           /\ bm25_ids' = [bm25_ids EXCEPT ![t] = ids_]
           /\ scores' = [scores EXCEPT ![t] = rrf_scores(vector_ids[t], ids_, K_DEFAULT)]
           /\ fused_ids' = [fused_ids EXCEPT ![t] =
                   fused_top_k(reciprocal_rank_fusion(vector_ids[t], ids_, K_DEFAULT),
                               top_k)]
    /\ pc' = [pc EXCEPT ![t] = "collect"]
    /\ UNCHANGED <<collection, all_ids, chunk_map, bm25, question, n_read, outcome,
                   answer, n_logged, top_k, candidate_k, k, vec_results, vector_ids,
                   results, confidence, exc>>

\* faulty variant: a chunk handed out is dropped from the shared chunk map
Collect_evicting(t) ==
    /\ pc[t] = "collect"
    /\ results' = [results EXCEPT ![t] = build_results(chunk_map, fused_ids[t])]
    /\ chunk_map' = [cid \in DOMAIN chunk_map \ Range(fused_ids[t]) |-> chunk_map[cid]]
    /\ pc' = [pc EXCEPT ![t] = "ret"]
    /\ UNCHANGED <<collection, all_ids, bm25, question, n_read, outcome,
                   answer, n_logged, top_k, candidate_k, k, vec_results, bm25_scores,
                   vector_ids, bm25_ids, scores, fused_ids, confidence, exc>>

\* lines 93-103: the chunks of the fused ids looked up in self.chunk_map, and
\* the return
Collect(t) ==
    /\ pc[t] = "collect"
    /\ results' = [results EXCEPT ![t] = build_results(chunk_map, fused_ids[t])]
    /\ pc' = [pc EXCEPT ![t] = "ret"]
    /\ UNCHANGED <<collection, all_ids, chunk_map, bm25, question, n_read, outcome,
                   answer, n_logged, top_k, candidate_k, k, vec_results, bm25_scores,
                   vector_ids, bm25_ids, scores, fused_ids, confidence, exc>>

NextConcurrent ==
    \E t \in Threads : QueryVector(t) \/ Lexical(t) \/ Collect(t)

SpecConcurrent == InitConcurrent /\ [][NextConcurrent]_vars

\* ================================================================== claims
\* chunk ids of a result list, in order
ResultIds(res) == [i \in DOMAIN res |-> res[i].chunk_id]

\* identifiers either ranked list names
Candidates == Range(vector_ids) \cup Range(bm25_ids)

\* 0-based rank of x in a ranked list that names it
RankIn(list, x) == IndexOf(list, x) - 1

\* the fused score the specification defines: 1/(k + r + 1) from each list
\* that names the identifier at rank r, 0 from a list that does not
SpecTerm(list, x) == IF x \in Range(list) THEN Contribution(k, RankIn(list, x)) ELSE 0

SpecScore(x) == SpecTerm(vector_ids, x) + SpecTerm(bm25_ids, x)

\* position at which x is first met when the first list and then the second
\* list is walked
FirstEncounter(x) == IndexOf(vector_ids \o bm25_ids, x)

\* C1: the chunk list retrieve returns has at most top_k entries, names no
\* chunk_id twice, and names only keys of chunk_map
C1_ResultBounded ==
    pc = "retrieve_ret" =>
        /\ Len(results) <= top_k
        /\ IsDistinct(ResultIds(results))
        /\ \A i \in DOMAIN results : results[i].chunk_id \in DOMAIN chunk_map

\* C1 witness: more candidates than top_k, one of them unknown to the store,
\* and a full result
C1_Witness ==
    /\ pc = "retrieve_ret"
    /\ Cardinality(Candidates) > top_k
    /\ \E x \in Range(vector_ids) : x \notin DOMAIN chunk_map
    /\ Range(vector_ids) \cap Range(bm25_ids) # {}
    /\ Len(results) = top_k

\* C2: for non-empty lists the fusion returns a permutation of the union of
\* the two lists: every identifier of either list exactly once, no other
C2_FusePermutation ==
    (pc = "fuse_ret" /\ vector_ids # <<>> /\ bm25_ids # <<>>) =>
        /\ IsDistinct(fused_ids)
        /\ Range(fused_ids) = Candidates

\* C2 witness: two non-empty lists that share an identifier and each name
\* one the other does not
C2_Witness ==
    /\ pc = "fuse_ret"
    /\ Range(vector_ids) \cap Range(bm25_ids) # {}
    /\ Range(vector_ids) \ Range(bm25_ids) # {}
    /\ Range(bm25_ids) \ Range(vector_ids) # {}
    /\ Len(fused_ids) = Cardinality(Candidates)

\* C3: the score the fusion holds for an identifier is the sum of
\* 1/(k + r + 1) over the lists naming it, and the output is ordered by
\* non-increasing score
C3_FuseOrdered ==
    pc = "fuse_ret" =>
        /\ \A x \in Range(fused_ids) : scores.val[x] = SpecScore(x)
        /\ \A i, j \in DOMAIN fused_ids :
               i < j => scores.val[fused_ids[i]] >= scores.val[fused_ids[j]]

\* C3 witness: with the default k, the output is not the order of first
\* encounter, and its scores strictly decrease somewhere
C3_Witness ==
    /\ pc = "fuse_ret"
    /\ k = K_DEFAULT
    /\ fused_ids # scores.keys
    /\ \E i, j \in DOMAIN fused_ids :
           i < j /\ scores.val[fused_ids[i]] > scores.val[fused_ids[j]]

\* C4: identifiers with equal fused scores come out in the order of their
\* first encounter (first list, then second list); a vector-only and a
\* BM25-only identifier at the same rank come out vector-first
C4_FuseTieBreak ==
    pc = "fuse_ret" =>
        /\ \A i, j \in DOMAIN fused_ids :
               (i < j /\ scores.val[fused_ids[i]] = scores.val[fused_ids[j]])
                   => FirstEncounter(fused_ids[i]) < FirstEncounter(fused_ids[j])
        /\ \A r \in DOMAIN vector_ids \cap DOMAIN bm25_ids :
               (vector_ids[r] \notin Range(bm25_ids) /\ bm25_ids[r] \notin Range(vector_ids))
                   => IndexOf(fused_ids, vector_ids[r]) < IndexOf(fused_ids, bm25_ids[r])

\* C4 witness: a vector-only and a BM25-only identifier tie at rank 1 behind
\* an identifier both lists name first
C4_Witness ==
    /\ pc = "fuse_ret"
    /\ k = K_DEFAULT
    /\ Len(vector_ids) >= 2 /\ Len(bm25_ids) >= 2
    /\ vector_ids[1] = bm25_ids[1]
    /\ vector_ids[2] \notin Range(bm25_ids)
    /\ bm25_ids[2] \notin Range(vector_ids)
    /\ scores.val[vector_ids[2]] = scores.val[bm25_ids[2]]

SingleList == (Range(vector_ids) \ Range(bm25_ids)) \cup (Range(bm25_ids) \ Range(vector_ids))

\* 0-based rank of an identifier of SingleList in the list naming it
SingleRank(y) ==
    IF y \in Range(vector_ids) THEN RankIn(vector_ids, y) ELSE RankIn(bm25_ids, y)

\* C6: an identifier at rank r in both lists scores strictly more than
\* 1/(k + r + 1), the score of an identifier at rank r in one list only, and
\* precedes every identifier that one list only names at rank r or worse
C6_BothBeatsOne ==
    pc = "fuse_ret" =>
        \A r \in DOMAIN vector_ids \cap DOMAIN bm25_ids :
            vector_ids[r] = bm25_ids[r] =>
                /\ scores.val[vector_ids[r]] > Contribution(k, r - 1)
                /\ \A y \in SingleList :
                       SingleRank(y) >= r - 1 =>
                           /\ scores.val[vector_ids[r]] > scores.val[y]
                           /\ IndexOf(fused_ids, vector_ids[r]) < IndexOf(fused_ids, y)

\* C6 witness: an identifier at the second rank of both lists, and an
\* identifier the first list only names at the third rank
C6_Witness ==
    /\ pc = "fuse_ret"
    /\ k = K_DEFAULT
    /\ Len(vector_ids) >= 3 /\ Len(bm25_ids) >= 2
    /\ vector_ids[2] = bm25_ids[2]
    /\ vector_ids[3] \in SingleList

\* C7 (as claimed): the confidence retrieve returns lies in [0, 1]
C7_ConfidenceInUnitInterval ==
    pc = "retrieve_ret" => (0 <= confidence /\ confidence <= CONF_ONE)

\* C8: when the Vector Index answers with no candidate, retrieve returns
\* without raising, with confidence 0
C8_EmptyVectorResult ==
    (pc \in {"retrieve_ret", "retrieve_raised"} /\ vec_results.ok /\ vec_results.ids = <<>>) =>
        /\ pc = "retrieve_ret"
        /\ exc = "none"
        /\ confidence = 0

\* C8 witness: no vector candidate, and chunks returned from the lexical side
C8_Witness ==
    /\ pc = "retrieve_ret"
    /\ vec_results.ok
    /\ vec_results.ids = <<>>
    /\ bm25_ids # <<>>
    /\ results # <<>>
    /\ confidence = 0

\* C9: the confidence is 1 - distance/2 of the first distance of the
\* response; with a first distance of 1.8 (180) it is 0.10 (20 of 200), and
\* the gate then refuses with that value and goes back to reading, with no
\* generation in between
C9_ConfidenceFromNearest ==
    /\ [](((pc \in {"gate", "generate"} \/ outcome.kind \in {"low_confidence", "answered"})
             /\ vec_results.ids # <<>>)
            => confidence = CONF_ONE - vec_results.distances[1])
    /\ []((pc = "gate" /\ vec_results.ids # <<>> /\ vec_results.distances[1] = 180)
            => confidence = 20)
    /\ [][(pc = "gate" /\ vec_results.ids # <<>> /\ vec_results.distances[1] = 180)
            => /\ pc' = "read"
               /\ outcome' = [kind |-> "low_confidence", confidence |-> 20]
               /\ answer' = NoAnswer
               /\ n_logged' = n_logged]_vars

\* C9 witness: the refusal carrying 0.10, after a response whose first
\* distance is 1.8 and whose second distance is another one
C9_Witness ==
    /\ pc = "read"
    /\ outcome = [kind |-> "low_confidence", confidence |-> 20]
    /\ Len(vec_results.distances) >= 2
    /\ vec_results.distances[1] = 180
    /\ vec_results.distances[2] # 180
    /\ answer = NoAnswer

\* a step in which ask_gemini is called
GenerationStep == answer' # answer /\ answer' # NoAnswer

\* C10: ask_gemini is called for a question only if the question passed the
\* keyword filter and its retrieval returned confidence >= 0.70; the gate
\* refuses a lower confidence and lets a confidence of exactly 0.70 through
C10_GenerationGated ==
    /\ []((pc = "generate" \/ outcome.kind = "answered")
            => /\ is_tax_question(question)
               /\ confidence >= CONFIDENCE_THRESHOLD
               /\ exc = "none")
    /\ [][(GenerationStep \/ n_logged' # n_logged)
            => /\ pc = "generate"
               /\ is_tax_question(question)
               /\ confidence >= CONFIDENCE_THRESHOLD]_vars
    /\ [][(pc = "gate" /\ confidence < CONFIDENCE_THRESHOLD)
            => /\ pc' = "read"
               /\ outcome' = [kind |-> "low_confidence", confidence |-> confidence]
               /\ answer' = NoAnswer
               /\ n_logged' = n_logged]_vars
    /\ [][(pc = "gate" /\ confidence >= CONFIDENCE_THRESHOLD) => pc' = "generate"]_vars

\* C10 witness: an answer generated for a question whose confidence was
\* exactly 0.70
C10_Witness ==
    /\ outcome = [kind |-> "answered", confidence |-> CONFIDENCE_THRESHOLD]
    /\ confidence = CONFIDENCE_THRESHOLD
    /\ answer # NoAnswer
    /\ n_logged >= 1


\* kw stands in q at position i, letter case ignored
KeywordAt(kw, q, i) ==
    \A j \in 1..Len(kw) : LowerChar(q[i + j - 1]) = kw[j]

\* some keyword of the domain keyword set occurs in q, letter case ignored
ContainsKeyword(q) ==
    \E kw \in TAX_KEYWORDS :
        \E i \in 1..(Len(q) - Len(kw) + 1) : KeywordAt(kw, q, i)

\* ContainsKeyword of each line that main can hold in question
HasKeyword ==
    [q \in {strip(raw) : raw \in RawInputs} \cup {<<>>} |-> ContainsKeyword(q)]

\* a step in which HybridRetriever.retrieve is called
RetrieveStep == pc = "retrieve" /\ pc' # "retrieve"

\* C11: a question that contains no keyword of the domain keyword set is
\* refused as off-topic and nothing is retrieved for it: the filter sends
\* main straight back to the prompt, no step between reading that question
\* and reading the next one is a call of retrieve, and main stands past the
\* filter only for a question that contains a keyword
C11_OffTopicNoRetrieval ==
    /\ [][(pc = "filter" /\ ~HasKeyword[question])
            => /\ pc' = "read"
               /\ outcome'.kind = "off_topic"
               /\ vec_results' = NoResponse
               /\ results' = <<>>]_vars
    /\ [][RetrieveStep => HasKeyword[question]]_vars
    /\ [](pc \in {"retrieve", "gate", "generate", "crashed"}
            => HasKeyword[question])
    /\ [](outcome.kind = "off_topic"
            => pc = "read" /\ vec_results = NoResponse /\ results = <<>>)

C11_Witness ==
    /\ question = Q_WEATHER
    /\ outcome.kind = "off_topic"
    /\ pc = "read"
    /\ n_read = 1


\* C12: is_tax_question returns true for a question exactly when some
\* keyword of the fixed set occurs in it as a substring, letter case ignored;
\* it returns true for "What is Form 8843?" and false for "What's the weather
\* today?"
C12_FilterIffKeyword ==
    pc = "filter_ret" =>
        /\ outcome.value <=> ContainsKeyword(question)
        /\ question = Q_FORM => outcome.value
        /\ question = Q_WEATHER => ~outcome.value

C12_Witness ==
    /\ pc = "filter_ret"
    /\ question = <<"x", "T", "a", "X">>
    /\ outcome.value


\* C13: when the Vector Index query fails, retrieve ends in an error that
\* reaches its caller, and it returns nothing: no result list, and none built
\* from the lexical candidates alone; a call that returns had its Vector
\* Index query answered
C13_VectorFailureSurfaces ==
    /\ (pc # "retrieve_call" /\ ~vec_results.ok)
         => /\ pc = "retrieve_raised"
            /\ exc # "none"
            /\ results = <<>>
            /\ fused_ids = <<>>
    /\ pc = "retrieve_ret" => vec_results.ok /\ exc = "none"

C13_Witness ==
    /\ pc = "retrieve_raised"
    /\ vec_results = VecFailure
    /\ Len(all_ids) = MaxCorpus
    /\ candidate_k >= 1


\* C14: a retrieve call that ends in an error leaves the engine's chunk map,
\* id list and lexical index as they were, and the query loop goes on: main
\* is back at the prompt, where the next question is read and served
C14_FailureConfined ==
    [][(RetrieveStep /\ exc' # "none")
         => /\ all_ids' = all_ids
            /\ chunk_map' = chunk_map
            /\ bm25' = bm25
            /\ pc' = "read"]_vars


\* C15: when the generation call fails, ask_gemini still returns: its answer
\* quotes the text of the first two retrieved chunks (of all of them when
\* fewer than two were retrieved), in retrieval order, and used_fallback is
\* true; the answer depends on the chunks alone
C15_FallbackOnGenerationFailure ==
    (pc = "ask_ret" /\ outcome.kind = "gemini_raised")
        => /\ answer.used_fallback
           /\ Len(answer.answer) = Min(2, Len(results))
           /\ \A i \in 1..Len(answer.answer) : answer.answer[i] = results[i].text
           /\ exc = "none"

C15_Witness ==
    /\ pc = "ask_ret"
    /\ outcome.kind = "gemini_raised"
    /\ Len(results) = 3
    /\ answer.used_fallback
    /\ Len(answer.answer) = 2


\* what retrieve returns for a Vector Index response over the corpus of one
\* chunk whose BM25 score is 0
OverOneChunk(vec, top_k_, candidate_k_) ==
    retrieve(<<1>>, BuildChunkMap(<<1>>), vec, <<0>>, top_k_, candidate_k_)

\* C16: the confidence retrieve returns is fixed by the Vector Index response
\* alone: whatever the corpus, the BM25 scores, the lexical candidates and the
\* fused ranking of a call are, it ends as, and returns the confidence of, the
\* call that receives the same response over the one-chunk corpus; so any two
\* calls that receive the same response return the same confidence
C16_ConfidenceIgnoresLexical ==
    pc \in {"retrieve_ret", "retrieve_raised"} =>
        LET other == OverOneChunk(vec_results, top_k, candidate_k)
        IN other.exc = exc /\ other.confidence = confidence

C16_Witness ==
    /\ pc = "retrieve_ret"
    /\ Len(vector_ids) >= 2
    /\ bm25_ids # <<>>
    /\ fused_ids[1] # vector_ids[1]
    /\ confidence = CONF_ONE - vec_results.distances[1]
    /\ vec_results.distances[2] > vec_results.distances[1]


\* the call of caller t run alone on the engine as constructed, with the
\* Vector Index response and the BM25 scores that t received
Alone(t) ==
    LET engine == HybridRetriever_init(collection)
    IN retrieve(engine.all_ids, engine.chunk_map, vec_results[t], bm25_scores[t],
                top_k, candidate_k)

\* C17: no step of a retrieve call changes the chunk map, the id list or the
\* lexical index, and whatever the interleaving of two concurrent calls, a
\* call that has ended returned the chunks and the confidence (or raised the
\* error) of the same call run alone
C17_ConcurrentCallsAsAlone ==
    /\ [][all_ids' = all_ids /\ chunk_map' = chunk_map /\ bm25' = bm25]_vars
    /\ [](\A t \in Threads :
            /\ pc[t] = "ret" => /\ Alone(t).exc = "none"
                                /\ results[t] = Alone(t).results
                                /\ confidence[t] = Alone(t).confidence
            /\ pc[t] = "raised" => Alone(t).exc = exc[t])

C17_Witness ==
    /\ pc["t1"] = "ret"
    /\ pc["t2"] = "collect"
    /\ Len(all_ids) = MaxCorpus
    /\ results["t1"] # <<>>
    /\ fused_ids["t2"] # <<>>
    /\ fused_ids["t1"][1] = fused_ids["t2"][1]


\* some record of the collection has the empty string for its text
HasEmptyText == \E i \in DOMAIN collection.documents : collection.documents[i] = <<>>

C19_EmptyCorpusRejected ==
    /\ (pc # "construct" /\ collection.ids = <<>>)
         => pc = "crashed" /\ exc # "none"
    /\ pc = "read" => bm25.corpus_size > 0 /\ all_ids # <<>>

C19_Witness ==
    /\ pc = "crashed"
    /\ collection.ids = <<>>
    /\ exc = "ZeroDivisionError"


\* C20: when retrieve returns for top_k >= 1 and one identifier of the store
\* heads both the vector list and the lexical list, that identifier is the
\* first chunk of the result, however the other identifiers are ranked
C20_SharedFirstIsFirst ==
    (/\ pc = "retrieve_ret"
     /\ top_k >= 1
     /\ vector_ids # <<>>
     /\ bm25_ids # <<>>
     /\ vector_ids[1] = bm25_ids[1]
     /\ vector_ids[1] \in DOMAIN chunk_map)
        => /\ results # <<>>
           /\ results[1].chunk_id = vector_ids[1]
           /\ results[1].text = chunk_map[vector_ids[1]].text

C20_Witness ==
    /\ pc = "retrieve_ret"
    /\ Len(vector_ids) >= 2
    /\ Len(bm25_ids) >= 2
    /\ vector_ids[1] = bm25_ids[1]
    /\ vector_ids[2] # bm25_ids[2]
    /\ results[1].chunk_id = vector_ids[1]


\* corpus position of the i-th lexical candidate
PositionOf(i) == IndexOf(all_ids, bm25_ids[i])

\* position p comes before position q in the lexical ranking: higher BM25
\* score first, the lower position first among equal scores
Outranks(p, q) ==
    \/ bm25_scores[p] > bm25_scores[q]
    \/ bm25_scores[p] = bm25_scores[q] /\ p < q

\* C21: the lexical candidates of a retrieve call stand in order of
\* descending BM25 score, equal scores in ascending corpus position; every
\* position left out ranks after every position taken; and a call with the
\* same scores and candidate_k, whatever its Vector Index response and
\* top_k, selects the same candidates
C21_LexicalTopKOrder ==
    pc = "retrieve_ret" =>
        /\ \A i, j \in DOMAIN bm25_ids :
              i < j => Outranks(PositionOf(i), PositionOf(j))
        /\ \A i \in DOMAIN bm25_ids :
              \A p \in DOMAIN all_ids \ {PositionOf(j) : j \in DOMAIN bm25_ids} :
                  Outranks(PositionOf(i), p)
        /\ retrieve(all_ids, chunk_map, NoResponse, bm25_scores, 1,
                    candidate_k).bm25_ids = bm25_ids

C21_Witness ==
    /\ pc = "retrieve_ret"
    /\ Len(all_ids) >= 2
    /\ bm25_scores[1] = bm25_scores[2]
    /\ bm25_ids = <<all_ids[1], all_ids[2]>>
    /\ vector_ids # <<>>


\* a letter, a digit or the underscore
IsAlnumOrUnderscore(c) ==
    c \in {"a","b","c","d","e","f","g","h","i","j","k","l","m","n","o","p","q",
           "r","s","t","u","v","w","x","y","z","0","1","2","3","4","5","6","7",
           "8","9","_"}

\* the lower-cased text handed to tokenize
LoweredText == [i \in DOMAIN question |-> LowerChar(question[i])]

\* the stretches <<a, b>> of the lower-cased text that consist of letters,
\* digits and underscores and cannot be extended on either side
WordRuns ==
    {r \in (DOMAIN question) \X (DOMAIN question) :
        /\ r[1] <= r[2]
        /\ \A i \in r[1]..r[2] : IsAlnumOrUnderscore(LoweredText[i])
        /\ r[1] = 1 \/ ~IsAlnumOrUnderscore(LoweredText[r[1] - 1])
        /\ r[2] = Len(question) \/ ~IsAlnumOrUnderscore(LoweredText[r[2] + 1])}

\* C22 (as the code has it): tokenize lower-cases the text and returns its
\* maximal runs of letters, digits and underscores, left to right; every
\* other character, the hyphen included, separates tokens and is dropped, so
\* "F-1 treaty benefits" is tokenized as ["f", "1", "treaty", "benefits"]
C22_TokenizeWordRuns ==
    pc = "tokenize_ret" =>
        /\ Len(outcome.value) = Cardinality(WordRuns)
        /\ \A r \in WordRuns :
              outcome.value[1 + Cardinality({q \in WordRuns : q[1] < r[1]})]
                  = SubSeq(LoweredText, r[1], r[2])
        /\ question = Q_F1 =>
              outcome.value = <<  <<"f">>, <<"1">>,
                                  <<"t", "r", "e", "a", "t", "y">>,
                                  <<"b", "e", "n", "e", "f", "i", "t", "s">>  >>

C22_Witness ==
    /\ pc = "tokenize_ret"
    /\ question = Q_F1
    /\ Len(outcome.value) = 4

\* C22 (as stated): a hyphenated term stays one token, "F-1 treaty benefits"
\* is tokenized as ["f-1", "treaty", "benefits"]
C22_HyphenKept ==
    (pc = "tokenize_ret" /\ question = Q_F1)
        => outcome.value = <<  <<"f", "-", "1">>,
                               <<"t", "r", "e", "a", "t", "y">>,
                               <<"b", "e", "n", "e", "f", "i", "t", "s">>  >>


\* the places of the truncated fused ranking whose identifier is in the store
StoredPlaces == {i \in DOMAIN fused_ids : fused_ids[i] \in DOMAIN chunk_map}

\* C23: retrieve returns without an error when fused identifiers are missing
\* from the chunk store; it returns one chunk for each of the first top_k
\* fused identifiers that is in the store and none for the others, each with
\* the text the store holds, in the order of the fused ranking
C23_MissingIdsSkipped ==
    pc = "retrieve_ret" =>
        /\ exc = "none"
        /\ fused_ids = Take(reciprocal_rank_fusion(vector_ids, bm25_ids, K_DEFAULT), top_k)
        /\ Len(results) = Cardinality(StoredPlaces)
        /\ \A i \in DOMAIN results :
              /\ \E p \in StoredPlaces : fused_ids[p] = results[i].chunk_id
              /\ results[i].text = chunk_map[results[i].chunk_id].text
        /\ \A i, j \in DOMAIN results :
              i < j => IndexOf(fused_ids, results[i].chunk_id)
                         < IndexOf(fused_ids, results[j].chunk_id)

C23_Witness ==
    /\ pc = "retrieve_ret"
    /\ Len(fused_ids) >= 2
    /\ fused_ids[1] \notin DOMAIN chunk_map
    /\ fused_ids[2] \in DOMAIN chunk_map
    /\ Len(results) = Len(fused_ids) - 1


\* min(candidate_k, corpus size)
CandidateCount == IF candidate_k <= Len(all_ids) THEN candidate_k ELSE Len(all_ids)

\* C24: whatever the BM25 scores are, the lexical candidate list handed to
\* the fusion names exactly min(candidate_k, corpus size) chunks of the
\* corpus, none twice; when every score is 0 it is the first that many ids
\* in corpus order; and each candidate, zero score or not, holds in the
\* fused scores at least the contribution of its lexical rank
C24_LexicalCandidateCount ==
    pc = "retrieve_ret" =>
        /\ Len(bm25_ids) = CandidateCount
        /\ \A i, j \in DOMAIN bm25_ids : i # j => bm25_ids[i] # bm25_ids[j]
        /\ \A i \in DOMAIN bm25_ids : \E p \in DOMAIN all_ids : all_ids[p] = bm25_ids[i]
        /\ (\A p \in DOMAIN bm25_scores : bm25_scores[p] = 0)
              => bm25_ids = [i \in 1..CandidateCount |-> all_ids[i]]
        /\ \A i \in DOMAIN bm25_ids :
              /\ bm25_ids[i] \in DOMAIN scores.val
              /\ scores.val[bm25_ids[i]] >= Scale(K_DEFAULT) \div (K_DEFAULT + i)
              /\ scores.val[bm25_ids[i]] > 0

C24_Witness ==
    /\ pc = "retrieve_ret"
    /\ Len(all_ids) = MaxCorpus
    /\ candidate_k = MaxCorpus
    /\ \A p \in DOMAIN bm25_scores : bm25_scores[p] = 0
    /\ bm25_ids = all_ids
    /\ vector_ids # <<>>

====
